---- MODULE Spec2Model ----
(***************************************************************************)
(* Parallel AES-CTR transforms of tiny-AES-c-parallelization:              *)
(*   AES_CTR_xcrypt_buffer_openmp                 (aes_openmp.c)           *)
(*   AES_CTR_xcrypt_buffer_openmp_nowait          (aes_openmp_nowait.c)    *)
(*   AES_CTR_xcrypt_buffer_openmp_shared_ctx      (aes_openmp_shared_ctx.c)*)
(*   AES_CTR_xcrypt_buffer_openmp_false_sharing   (aes_openmp_false_sharing.c)*)
(* driven as benchmark.c drives them: a context is initialised with        *)
(* AES_init_ctx_iv and one transform is called on a buffer.  The team of   *)
(* an OpenMP parallel region is modelled thread by thread; one step of a   *)
(* thread is the derivation of one block's key stream or the XOR of one    *)
(* block into the caller's buffer.                                         *)
(***************************************************************************)
EXTENDS Integers, Sequences, FiniteSets, TLC

\* aes.h: the AES block length in bytes.
AES_BLOCKLEN == 16

\* Bounds of the model.
MaxWorkers == 3      \* largest team size of a parallel region
MaxBlocks == 3       \* largest number of whole blocks in a buffer
TailBytes == 5       \* length of the partial block, when there is one

Variants == {"openmp", "nowait", "shared_ctx", "false_sharing"}

BlockIdx == 1..AES_BLOCKLEN

\* uint8_t a ^ b.
RECURSIVE BitXor(_, _)
BitXor(a, b) ==
  IF a = 0 THEN b
  ELSE IF b = 0 THEN a
  ELSE (((a % 2) + (b % 2)) % 2) + 2 * BitXor(a \div 2, b \div 2)

(***************************************************************************)
(* Test vectors: key[] and iv[] of benchmark.c, and a second vector whose  *)
(* counter wraps around 2^128 inside the buffer.  The data is a fixed      *)
(* pseudo-random byte pattern (benchmark.c fills it with rand() & 0xFF).   *)
(***************************************************************************)
BenchKey == <<43, 126, 21, 22, 40, 174, 210, 166, 171, 247, 21, 136, 9, 207, 79, 60>>
BenchIv == <<240, 241, 242, 243, 244, 245, 246, 247, 248, 249, 250, 251, 252, 253, 254, 255>>
WrapKey == [i \in BlockIdx |-> (29 * i + 7) % 256]
WrapIv == [i \in BlockIdx |-> IF i = AES_BLOCKLEN THEN 254 ELSE 255]

Vectors ==
  { [key |-> BenchKey, iv |-> BenchIv, seed |-> 11],
    [key |-> WrapKey, iv |-> WrapIv, seed |-> 200] }

RandData(seed, len) == [i \in 1..len |-> (seed + 37 * i + ((i * i) % 11)) % 256]

Lengths == { AES_BLOCKLEN * b + t : b \in 0..MaxBlocks, t \in {0, TailBytes} }

\* Stack memory before its first write.
Junk == [i \in BlockIdx |-> 170]
\* Static storage is zero-initialised.
Zeroes == [i \in BlockIdx |-> 0]

(***************************************************************************)
(* The block cipher (aes.c), used as an opaque deterministic capability.   *)
(***************************************************************************)
\* KeyExpansion: the key schedule, a deterministic function of the key.
KeyExpansion(k) == [i \in BlockIdx |-> (k[i] + 3 * k[(i % AES_BLOCKLEN) + 1] + i) % 256]

RECURSIVE WeightedSum(_, _)
WeightedSum(block, j) ==
  IF j = 0 THEN 0 ELSE (j * block[j] + WeightedSum(block, j - 1)) % 256

\* AES_ECB_encrypt(ctx, buf): one block through the cipher, a deterministic
\* function of the key schedule and of every byte of the block.
AES_ECB_encrypt(RoundKey, block) ==
  LET t == WeightedSum(block, AES_BLOCKLEN)
  IN  [i \in BlockIdx |-> (RoundKey[i] + block[i] + t * (2 * i + 1)) % 256]

\* AES_init_ctx_iv(ctx, key, iv).
AES_init_ctx_iv(k, v) == [RoundKey |-> KeyExpansion(k), Iv |-> v]

\* The counter increment inside the serial AES_CTR_xcrypt_buffer.
RECURSIVE SerialIncrement(_, _)
SerialIncrement(Iv, bi) ==
  IF bi < 0 THEN Iv
  ELSE IF Iv[bi + 1] = 255
       THEN SerialIncrement([Iv EXCEPT ![bi + 1] = 0], bi - 1)
       ELSE [Iv EXCEPT ![bi + 1] = Iv[bi + 1] + 1]

\* The loop of the serial AES_CTR_xcrypt_buffer from byte i on.
RECURSIVE SerialLoop(_, _, _, _, _)
SerialLoop(c, b, i, bi, ks) ==
  IF i >= Len(b) THEN [ctx |-> c, buf |-> b]
  ELSE IF bi = AES_BLOCKLEN
       THEN LET ks2 == AES_ECB_encrypt(c.RoundKey, c.Iv)
                c2 == [c EXCEPT !.Iv = SerialIncrement(c.Iv, AES_BLOCKLEN - 1)]
            IN  SerialLoop(c2, [b EXCEPT ![i + 1] = BitXor(b[i + 1], ks2[1])],
                           i + 1, 1, ks2)
       ELSE SerialLoop(c, [b EXCEPT ![i + 1] = BitXor(b[i + 1], ks[bi + 1])],
                       i + 1, bi + 1, ks)

\* AES_CTR_xcrypt_buffer(ctx, buf, length): the serial reference.
AES_CTR_xcrypt_buffer(c, b) == SerialLoop(c, b, 0, AES_BLOCKLEN, Junk)

(***************************************************************************)
(* Counter arithmetic.                                                     *)
(***************************************************************************)
RECURSIVE IncrementLoop(_, _, _)
IncrementLoop(Iv, i, carry) ==
  IF i < 0 \/ carry = 0 THEN Iv
  ELSE LET sum == Iv[i + 1] + (carry % 256)
       IN  IncrementLoop([Iv EXCEPT ![i + 1] = sum % 256], i - 1,
                         (carry \div 256) + (sum \div 256))

\* Mutant: the addition stops at the last byte of the counter, the carry is lost.
IncrementIvBy_NoCarry(Iv, blocks) ==
  [Iv EXCEPT ![AES_BLOCKLEN] = (Iv[AES_BLOCKLEN] + blocks) % 256]

\* IncrementIvBy(Iv, blocks).
IncrementIvBy(Iv, blocks) == IncrementLoop(Iv, AES_BLOCKLEN - 1, blocks)

(***************************************************************************)
(* #pragma omp for schedule(static), as gcc divides the iterations: each   *)
(* thread gets one contiguous chunk [lo, hi), the first n % nthreads       *)
(* threads one iteration more than the others.                             *)
(***************************************************************************)
\* Mutant: the n % nthreads iterations left by the division are given to nobody.
StaticChunk_DropsRest(tid, nthreads, n) ==
  LET q == n \div nthreads
  IN  [lo |-> q * tid, hi |-> q * tid + q]

\* Mutant: every chunk runs one iteration into the next thread's chunk.
StaticChunk_Overlap(tid, nthreads, n) ==
  LET q == n \div nthreads
      r == n % nthreads
      lo == IF tid < r THEN (q + 1) * tid ELSE q * tid + r
      sz == IF tid < r THEN q + 1 ELSE q
  IN  [lo |-> lo, hi |-> IF lo + sz < n THEN lo + sz + 1 ELSE lo + sz]

\* Mutant: every thread gets n / nthreads iterations and the last thread the
\* rest as well.
StaticChunk_RestToLast(tid, nthreads, n) ==
  LET q == n \div nthreads
  IN  [lo |-> tid * q, hi |-> IF tid = nthreads - 1 THEN n ELSE (tid + 1) * q]

StaticChunk(tid, nthreads, n) ==
  LET q == n \div nthreads
      r == n % nthreads
      lo == IF tid < r THEN (q + 1) * tid ELSE q * tid + r
      sz == IF tid < r THEN q + 1 ELSE q
  IN  [lo |-> lo, hi |-> lo + sz]

\* Mutant: buf[buf_idx + i] += buffer[i].
XorBlock_Add(b, buf_idx, ks) ==
  [j \in 1..Len(b) |->
     IF j > buf_idx /\ j <= buf_idx + AES_BLOCKLEN
     THEN (b[j] + ks[j - buf_idx]) % 256 ELSE b[j]]

\* for (i = 0; i < AES_BLOCKLEN; ++i) buf[buf_idx + i] ^= buffer[i];
XorBlock(b, buf_idx, ks) ==
  [j \in 1..Len(b) |->
     IF j > buf_idx /\ j <= buf_idx + AES_BLOCKLEN
     THEN BitXor(b[j], ks[j - buf_idx]) ELSE b[j]]

\* Mutant: bi starts at 1, so the tail is XORed with the keystream one byte on.
XorTail_Shifted(b, from, to, ks) ==
  [j \in 1..Len(b) |->
     IF j > from /\ j <= to THEN BitXor(b[j], ks[j - from + 1]) ELSE b[j]]

\* Mutant: the loop runs to the end of the keystream block, not to length.
XorTail_WholeBlock(b, from, to, ks) ==
  [j \in 1..Len(b) |->
     IF j > from /\ j <= from + AES_BLOCKLEN THEN BitXor(b[j], ks[j - from]) ELSE b[j]]

\* for (i = num_blocks * AES_BLOCKLEN; i < length; ++i, ++bi) buf[i] ^= buffer[bi];
XorTail(b, from, to, ks) ==
  [j \in 1..Len(b) |->
     IF j > from /\ j <= to THEN BitXor(b[j], ks[j - from]) ELSE b[j]]

VARIABLES
  requested,         \* the argument of omp_set_num_threads
  W,                 \* omp_get_num_threads(): the team size
  key, iv, data,     \* the driver's key[], iv[] and the data as first filled
  call,              \* number of transform calls started
  src,               \* "copy": the call got a fresh copy of data; "inplace": the last output
  fn,                \* the transform being called
  entry_buf,         \* the buffer as passed to the current call
  ctx,               \* struct AES_ctx: RoundKey, Iv
  buf,               \* the caller's buffer
  pc,                \* the calling thread: idle, parallel, update_iv, remainder, returned
  num_blocks,        \* length / AES_BLOCKLEN
  initial_iv,        \* the snapshot of ctx->Iv
  wpc,               \* per thread: start, derive, xor, for_barrier, region_end, joined
  block_idx,         \* per thread: the loop variable
  thread_iv,         \* per thread: private thread_iv
  buffer,            \* per thread: private buffer
  thread_local_ctx,  \* per thread: the RoundKey of thread_local_ctx
  thread_ivs,        \* static thread_ivs[MAX_THREADS][AES_BLOCKLEN]
  thread_buffers,    \* static thread_buffers[MAX_THREADS][AES_BLOCKLEN]
  writes,            \* per byte of buf: the writers of this call, in order (-1: the caller)
  acc,               \* the memory accesses of this call: who, in which phase, read or write, what
  first,             \* what the first call was and returned
  calls,             \* the calls of two host threads running at once (ConcSpec only)
  chunks,            \* the buffers earlier calls on the same context returned (ContSpec only)
  driver             \* benchmark.c's main and test_correctness (DriverSpec only)

vars == <<driver, chunks, calls, requested, W, key, iv, data, call, src, fn, entry_buf, ctx, buf, pc, num_blocks,
          initial_iv, wpc, block_idx, thread_iv, buffer, thread_local_ctx,
          thread_ivs, thread_buffers, writes, acc, first>>

Team == 0..(W - 1)
Slots == 0..(MaxWorkers - 1)
length == Len(entry_buf)
Caller == -1

\* Mutant: a request for no thread makes a team of no thread.
TeamSize_AsRequested(n) == n

\* omp_set_num_threads(n) followed by a parallel region: the team has the
\* requested number of threads, and always at least the encountering thread
\* (a request that is not positive is taken as a request for one thread).
TeamSize(n) == IF n > 0 THEN n ELSE 1

\* Mutant: the thread number as it is outside a parallel region, 0 for all.
ThreadId_Zero(w) == 0

\* omp_get_thread_num() of the team's thread w.
ThreadId(w) == w

NoCall == [fn |-> "none", buf |-> <<>>, Iv |-> Zeroes]

Init ==
  /\ requested \in 0..MaxWorkers
  /\ W = TeamSize(requested)
  /\ \E v \in Vectors, len \in Lengths :
       /\ key = v.key
       /\ iv = v.iv
       /\ data = RandData(v.seed, len)
  /\ call = 0
  /\ src = "copy"
  /\ fn = "none"
  /\ entry_buf = data
  /\ ctx = [RoundKey |-> Junk, Iv |-> Junk]
  /\ buf = data
  /\ pc = "idle"
  /\ num_blocks = 0
  /\ initial_iv = Junk
  /\ wpc = [w \in Slots |-> "joined"]
  /\ block_idx = [w \in Slots |-> 0]
  /\ thread_iv = [w \in Slots |-> Junk]
  /\ buffer = [w \in Slots |-> Junk]
  /\ thread_local_ctx = [w \in Slots |-> Junk]
  /\ thread_ivs = [w \in Slots |-> Zeroes]
  /\ thread_buffers = [w \in Slots |-> Zeroes]
  /\ writes = [j \in 1..Len(data) |-> <<>>]
  /\ acc = {}
  /\ first = NoCall
  /\ calls = <<>>
  /\ chunks = <<>>
  /\ driver = <<>>

\* Where each variant keeps what a thread needs.
UsesStaticScratch(f) == f = "false_sharing"
\* Mutant: no variant makes a copy of the key schedule.
CopiesRoundKey_Never(f) == FALSE
CopiesRoundKey(f) == f # "shared_ctx"
HasLoopBarrier(f) == f # "nowait"

\* The position of a thread that has left the work-sharing loop: the implicit
\* barrier of "omp for", or with nowait the end of the parallel region.
LoopExit(f) == IF HasLoopBarrier(f) THEN "for_barrier" ELSE "region_end"

\* The scratch a thread stages one block in.
MyIv(w) == IF UsesStaticScratch(fn) THEN thread_ivs[ThreadId(w)] ELSE thread_iv[w]
MyBuffer(w) == IF UsesStaticScratch(fn) THEN thread_buffers[ThreadId(w)] ELSE buffer[w]
\* Mutant: every variant encrypts with thread_local_ctx, also the one that
\* never fills it.
MyRoundKey_AlwaysLocal(w) == thread_local_ctx[w]

\* The key schedule a thread encrypts with.
MyRoundKey(w) == IF CopiesRoundKey(fn) THEN thread_local_ctx[w] ELSE ctx.RoundKey

\* One memory access: thread who (-1: the calling thread outside the region),
\* in phase entry, start, loop or finish, reads ("r") or writes ("w") var[idx].
Access(who, phase, kind, var, idx) ==
  [who |-> who, phase |-> phase, kind |-> kind, var |-> var, idx |-> idx]

\* The objects a thread's scratch counter, scratch block and key schedule are.
IvVar(f) == IF UsesStaticScratch(f) THEN "thread_ivs" ELSE "thread_iv"
BufferVar(f) == IF UsesStaticScratch(f) THEN "thread_buffers" ELSE "buffer"
ScratchIdx(f, w) == IF UsesStaticScratch(f) THEN ThreadId(w) ELSE w
RoundKeyVar(f) == IF CopiesRoundKey(f) THEN "thread_local_ctx" ELSE "ctx.RoundKey"
RoundKeyIdx(f, w) == IF CopiesRoundKey(f) THEN w ELSE 0

\* memcpy(initial_iv, ctx->Iv, AES_BLOCKLEN);
EnterAccesses ==
  { Access(Caller, "entry", "r", "ctx.Iv", 0),
    Access(Caller, "entry", "w", "initial_iv", 0) }

\* memcpy(thread_local_ctx.RoundKey, ctx->RoundKey, AES_keyExpSize);
StartAccesses(w) ==
  IF CopiesRoundKey(fn)
  THEN { Access(w, "start", "r", "ctx.RoundKey", 0),
         Access(w, "start", "w", "thread_local_ctx", w) }
  ELSE {}

\* memcpy(thread_iv, initial_iv); IncrementIvBy(thread_iv, block_idx);
\* memcpy(buffer, thread_iv); AES_ECB_encrypt(ctx, buffer);
DeriveAccesses(w) ==
  { Access(w, "loop", "r", "initial_iv", 0),
    Access(w, "loop", "w", IvVar(fn), ScratchIdx(fn, w)),
    Access(w, "loop", "r", IvVar(fn), ScratchIdx(fn, w)),
    Access(w, "loop", "w", BufferVar(fn), ScratchIdx(fn, w)),
    Access(w, "loop", "r", BufferVar(fn), ScratchIdx(fn, w)),
    Access(w, "loop", "r", RoundKeyVar(fn), RoundKeyIdx(fn, w)) }

\* buf[buf_idx + i] ^= buffer[i]; the block of buf is named by its number.
XorAccesses(w) ==
  { Access(w, "loop", "r", BufferVar(fn), ScratchIdx(fn, w)),
    Access(w, "loop", "r", "buf", block_idx[w]),
    Access(w, "loop", "w", "buf", block_idx[w]) }

\* memcpy(ctx->Iv, initial_iv, AES_BLOCKLEN); IncrementIvBy(ctx->Iv, num_blocks);
UpdateIvAccesses ==
  { Access(Caller, "finish", "r", "initial_iv", 0),
    Access(Caller, "finish", "w", "ctx.Iv", 0),
    Access(Caller, "finish", "r", "ctx.Iv", 0) }

\* The remainder branch: the key schedule and the counter are read, the tail
\* of buf (named by the number after the last whole block) is XORed, the
\* counter is incremented.
RemainderAccesses ==
  { Access(Caller, "finish", "r", "ctx.RoundKey", 0),
    Access(Caller, "finish", "r", "ctx.Iv", 0),
    Access(Caller, "finish", "r", "buf", num_blocks),
    Access(Caller, "finish", "w", "buf", num_blocks),
    Access(Caller, "finish", "w", "ctx.Iv", 0) }

\* Mutant: the counter is advanced in a local copy and never stored back.
StoreIv_Dropped(c, v) == c

\* Mutant: memcpy(ctx, ...) where memcpy(ctx->Iv, ...) is meant: the bytes
\* land on RoundKey, the first member of struct AES_ctx.
StoreIv_AtStructStart(c, v) == [c EXCEPT !.RoundKey = v]

\* memcpy(ctx->Iv, v, AES_BLOCKLEN);
StoreIv(c, v) == [c EXCEPT !.Iv = v]

\* The driver initialises a context and calls transform f; the call runs to
\* the fork of the parallel region.
Enter(f, s) ==
  /\ \/ call = 0 /\ pc = "idle" /\ s = "copy"
     \/ call = 1 /\ pc = "returned"
  /\ LET b == IF s = "copy" THEN data ELSE buf
         c == AES_init_ctx_iv(key, iv)
     IN  /\ buf' = b
         /\ entry_buf' = b
         /\ ctx' = c
         /\ num_blocks' = Len(b) \div AES_BLOCKLEN
         /\ initial_iv' = c.Iv
         /\ writes' = [j \in 1..Len(b) |-> <<>>]
  /\ call' = call + 1
  /\ src' = s
  /\ fn' = f
  /\ pc' = "parallel"
  /\ wpc' = [w \in Slots |-> IF w < W THEN "start" ELSE "joined"]
  /\ block_idx' = [w \in Slots |-> 0]
  /\ thread_iv' = [w \in Slots |-> Junk]
  /\ buffer' = [w \in Slots |-> Junk]
  /\ thread_local_ctx' = [w \in Slots |-> Junk]
  /\ acc' = EnterAccesses
  /\ UNCHANGED <<driver, chunks, calls, requested, W, key, iv, data, thread_ivs, thread_buffers, first>>

\* A thread enters the region: it copies the key schedule (not in shared_ctx)
\* and takes its chunk of the loop.
WorkerStart(w) ==
  /\ pc = "parallel"
  /\ wpc[w] = "start"
  /\ thread_local_ctx' =
       IF CopiesRoundKey(fn) THEN [thread_local_ctx EXCEPT ![w] = ctx.RoundKey]
       ELSE thread_local_ctx
  /\ LET ch == StaticChunk(w, W, num_blocks)
     IN  /\ block_idx' = [block_idx EXCEPT ![w] = ch.lo]
         /\ wpc' = [wpc EXCEPT ![w] = IF ch.lo < ch.hi THEN "derive" ELSE LoopExit(fn)]
  /\ acc' = acc \cup StartAccesses(w)
  /\ UNCHANGED <<driver, chunks, calls, requested, W, key, iv, data, call, src, fn, entry_buf, ctx, buf, pc, num_blocks,
                 initial_iv, thread_iv, buffer, thread_ivs, thread_buffers,
                 writes, first>>

\* Mutant: the scratch counter is incremented without the copy of initial_iv.
BlockCounter_NoCopy(scratch, snapshot, b) == IncrementIvBy(scratch, b)

\* memcpy(thread_iv, initial_iv, AES_BLOCKLEN); IncrementIvBy(thread_iv, block_idx);
BlockCounter(scratch, snapshot, b) == IncrementIvBy(snapshot, b)

\* One block's key stream: the counter of the block, encrypted, in the scratch.
Derive(w) ==
  /\ pc = "parallel"
  /\ wpc[w] = "derive"
  /\ LET civ == BlockCounter(MyIv(w), initial_iv, block_idx[w])
         ks == AES_ECB_encrypt(MyRoundKey(w), civ)
     IN  IF UsesStaticScratch(fn)
         THEN /\ thread_ivs' = [thread_ivs EXCEPT ![ThreadId(w)] = civ]
              /\ thread_buffers' = [thread_buffers EXCEPT ![ThreadId(w)] = ks]
              /\ UNCHANGED <<thread_iv, buffer>>
         ELSE /\ thread_iv' = [thread_iv EXCEPT ![w] = civ]
              /\ buffer' = [buffer EXCEPT ![w] = ks]
              /\ UNCHANGED <<thread_ivs, thread_buffers>>
  /\ wpc' = [wpc EXCEPT ![w] = "xor"]
  /\ acc' = acc \cup DeriveAccesses(w)
  /\ UNCHANGED <<driver, chunks, calls, requested, W, key, iv, data, call, src, fn, entry_buf, ctx, buf, pc, num_blocks,
                 initial_iv, block_idx, thread_local_ctx, writes, first>>

\* Mutant: the offset of the block after the one derived.
BufIdx_NextBlock(b) == (b + 1) * AES_BLOCKLEN

\* size_t buf_idx = block_idx * AES_BLOCKLEN;
BufIdx(b) == b * AES_BLOCKLEN

\* The scratch is XORed into the block's bytes; the loop goes on or ends.
Xor(w) ==
  /\ pc = "parallel"
  /\ wpc[w] = "xor"
  /\ LET buf_idx == BufIdx(block_idx[w])
     IN  /\ buf' = XorBlock(buf, buf_idx, MyBuffer(w))
         /\ writes' = [j \in 1..Len(buf) |->
                         IF j > buf_idx /\ j <= buf_idx + AES_BLOCKLEN
                         THEN Append(writes[j], w) ELSE writes[j]]
  /\ block_idx' = [block_idx EXCEPT ![w] = block_idx[w] + 1]
  /\ wpc' = [wpc EXCEPT ![w] =
               IF block_idx[w] + 1 < StaticChunk(w, W, num_blocks).hi
               THEN "derive" ELSE LoopExit(fn)]
  /\ acc' = acc \cup XorAccesses(w)
  /\ UNCHANGED <<driver, chunks, calls, requested, W, key, iv, data, call, src, fn, entry_buf, ctx, pc, num_blocks,
                 initial_iv, thread_iv, buffer, thread_local_ctx, thread_ivs,
                 thread_buffers, first>>

\* Mutant: the loop has no barrier at its end.
LoopBarrierOpen_Always == TRUE

\* Mutant: a barrier that lets a thread through only while the whole team
\* still stands at it, so that it closes again behind the first thread.
LoopBarrierOpen_WhileAllWait == \A u \in Team : wpc[u] = "for_barrier"

\* The implicit barrier at the end of "omp for": open once every thread of
\* the team has reached it.
LoopBarrierOpen == \A u \in Team : wpc[u] \in {"for_barrier", "region_end"}

PassLoopBarrier(w) ==
  /\ pc = "parallel"
  /\ wpc[w] = "for_barrier"
  /\ LoopBarrierOpen
  /\ wpc' = [wpc EXCEPT ![w] = "region_end"]
  /\ UNCHANGED <<driver, chunks, calls, requested, W, key, iv, data, call, src, fn, entry_buf, ctx, buf, pc, num_blocks,
                 initial_iv, block_idx, thread_iv, buffer, thread_local_ctx,
                 thread_ivs, thread_buffers, writes, acc, first>>

\* Mutant: the calling thread goes on as soon as it has left the loop itself.
RegionEndReached_MasterOnly == wpc[0] = "region_end"

\* The implicit barrier at the end of the parallel region.
RegionEndReached == \A u \in Team : wpc[u] = "region_end"

Join ==
  /\ pc = "parallel"
  /\ RegionEndReached
  /\ pc' = "update_iv"
  /\ wpc' = [w \in Slots |-> "joined"]
  /\ UNCHANGED <<driver, chunks, calls, requested, W, key, iv, data, call, src, fn, entry_buf, ctx, buf, num_blocks,
                 initial_iv, block_idx, thread_iv, buffer, thread_local_ctx,
                 thread_ivs, thread_buffers, writes, acc, first>>

\* memcpy(ctx->Iv, initial_iv, AES_BLOCKLEN); IncrementIvBy(ctx->Iv, num_blocks);
UpdateIv ==
  /\ pc = "update_iv"
  /\ ctx' = StoreIv(ctx, IncrementIvBy(initial_iv, num_blocks))
  /\ pc' = "remainder"
  /\ acc' = acc \cup UpdateIvAccesses
  /\ UNCHANGED <<driver, chunks, calls, requested, W, key, iv, data, call, src, fn, entry_buf, buf, num_blocks,
                 initial_iv, wpc, block_idx, thread_iv, buffer, thread_local_ctx,
                 thread_ivs, thread_buffers, writes, first>>

\* Mutant: the remainder branch is taken whatever the length.
HasTail_Always(len) == TRUE

\* Mutant: the partial block is never handled.
HasTail_Never(len) == FALSE

\* if (length % AES_BLOCKLEN)
HasTail(len) == len % AES_BLOCKLEN # 0

\* The remaining bytes, handled by the calling thread; then the call returns
\* and its stack is gone.
Remainder ==
  /\ pc = "remainder"
  /\ LET from == num_blocks * AES_BLOCKLEN
         ks == AES_ECB_encrypt(ctx.RoundKey, ctx.Iv)
         b2 == IF HasTail(length) THEN XorTail(buf, from, length, ks) ELSE buf
         c2 == IF HasTail(length)
               THEN StoreIv(ctx, IncrementIvBy(ctx.Iv, 1)) ELSE ctx
     IN  /\ buf' = b2
         /\ ctx' = c2
         /\ writes' = [j \in 1..Len(buf) |->
                         IF HasTail(length) /\ j > from /\ j <= length
                         THEN Append(writes[j], Caller) ELSE writes[j]]
         /\ first' = IF call = 1 THEN [fn |-> fn, buf |-> b2, Iv |-> c2.Iv] ELSE first
  /\ pc' = "returned"
  /\ acc' = IF HasTail(length) THEN acc \cup RemainderAccesses ELSE acc
  /\ thread_iv' = [w \in Slots |-> Junk]
  /\ buffer' = [w \in Slots |-> Junk]
  /\ thread_local_ctx' = [w \in Slots |-> Junk]
  /\ UNCHANGED <<driver, chunks, calls, requested, W, key, iv, data, call, src, fn, entry_buf, num_blocks, initial_iv,
                 wpc, block_idx, thread_ivs, thread_buffers>>

Next ==
  \/ \E f \in Variants, s \in {"copy", "inplace"} : Enter(f, s)
  \/ \E w \in Team : WorkerStart(w)
  \/ \E w \in Team : Derive(w)
  \/ \E w \in Team : Xor(w)
  \/ \E w \in Team : PassLoopBarrier(w)
  \/ Join
  \/ UpdateIv
  \/ Remainder

Spec == Init /\ [][Next]_vars

\* The steps of one thread of the team, and those of the calling thread
\* outside the parallel region.
WorkerStep(w) ==
  /\ w \in Team
  /\ \/ WorkerStart(w)
     \/ Derive(w)
     \/ Xor(w)
     \/ PassLoopBarrier(w)

CallerStep == Join \/ UpdateIv \/ Remainder

\* Every thread the runtime has started keeps being scheduled: a step of a
\* thread that stays possible is eventually taken. Whether the driver makes
\* another call is left to the driver.
\* test_correctness's key and counter, every team and every length, and one
\* call of one transform.
OneCallInit == Init /\ key = BenchKey /\ iv = BenchIv

FirstCall(f) == call = 0 /\ Enter(f, "copy")

OneCallNext ==
  \/ \E f \in Variants : FirstCall(f)
  \/ \E w \in Team : WorkerStart(w)
  \/ \E w \in Team : Derive(w)
  \/ \E w \in Team : Xor(w)
  \/ \E w \in Team : PassLoopBarrier(w)
  \/ Join
  \/ UpdateIv
  \/ Remainder

FairSpec ==
  /\ OneCallInit
  /\ [][OneCallNext]_vars
  /\ \A w \in Slots : WF_vars(WorkerStep(w))
  /\ WF_vars(CallerStep)

(***************************************************************************)
(* IncrementIvBy on its own: a counter drawn from IvSamples is incremented *)
(* ArithSteps times in a row, each time by a number of blocks drawn from   *)
(* BlockCounts. initial_iv holds the counter before the last increment,    *)
(* num_blocks the number of blocks added, ctx.Iv the counter after it and  *)
(* call the number of increments made.                                     *)
(***************************************************************************)
ArithSteps == 3

AllOnes == [i \in BlockIdx |-> 255]
CarryChain == [i \in BlockIdx |-> IF i = 1 THEN 0 ELSE 255]
IvSamples == {Zeroes, AllOnes, CarryChain, WrapIv, BenchIv}

\* Block counts of one to four bytes; the last is the largest integer TLC
\* holds.
BlockCounts == {0, 1, 255, 256, 65535, 65536, 16777216, 2147483647}

ArithInit ==
  /\ \E x \in IvSamples :
       /\ iv = x
       /\ initial_iv = x
       /\ ctx = [RoundKey |-> Junk, Iv |-> x]
  /\ num_blocks = 0
  /\ call = 0
  /\ pc = "increment"
  /\ requested = 1
  /\ W = 1
  /\ key = BenchKey
  /\ data = <<>>
  /\ src = "copy"
  /\ fn = "none"
  /\ entry_buf = <<>>
  /\ buf = <<>>
  /\ wpc = [w \in Slots |-> "joined"]
  /\ block_idx = [w \in Slots |-> 0]
  /\ thread_iv = [w \in Slots |-> Junk]
  /\ buffer = [w \in Slots |-> Junk]
  /\ thread_local_ctx = [w \in Slots |-> Junk]
  /\ thread_ivs = [w \in Slots |-> Zeroes]
  /\ thread_buffers = [w \in Slots |-> Zeroes]
  /\ writes = <<>>
  /\ acc = {}
  /\ first = NoCall
  /\ calls = <<>>
  /\ chunks = <<>>
  /\ driver = <<>>

\* IncrementIvBy(ctx->Iv, blocks);
Increment(blocks) ==
  /\ pc = "increment"
  /\ call < ArithSteps
  /\ initial_iv' = ctx.Iv
  /\ num_blocks' = blocks
  /\ ctx' = StoreIv(ctx, IncrementIvBy(ctx.Iv, blocks))
  /\ call' = call + 1
  /\ UNCHANGED <<driver, chunks, calls, requested, W, key, iv, data, src, fn, entry_buf, buf, pc, wpc, block_idx,
                 thread_iv, buffer, thread_local_ctx, thread_ivs, thread_buffers,
                 writes, acc, first>>

ArithNext == \E blocks \in BlockCounts : Increment(blocks)

ArithSpec == ArithInit /\ [][ArithNext]_vars

(***************************************************************************)
(* The indexing of the static scratch arrays on its own: test_correctness  *)
(* calls false_sharing on test_size bytes with whatever team the runtime   *)
(* makes (no omp_set_num_threads precedes it: the team is                  *)
(* OMP_NUM_THREADS or the number of processors), and every thread that has *)
(* an iteration forms thread_ivs[thread_id] and thread_buffers[thread_id]. *)
(* acc holds the accesses of the last thread that did.                     *)
(***************************************************************************)
MAX_THREADS == 256
MaxTeam == 257
TestSize == 1048576
TestBlocks == TestSize \div AES_BLOCKLEN

\* The teams of the driver's thread_counts, a team that fills the arrays and
\* the largest team drawn.
TeamSizes == {1, 2, 4, 8, 16, MAX_THREADS, MaxTeam}

BoundsInit ==
  /\ requested = 0
  /\ W \in TeamSizes
  /\ fn = "false_sharing"
  /\ call = 1
  /\ pc = "parallel"
  /\ num_blocks = TestBlocks
  /\ acc = {}
  /\ key = BenchKey
  /\ iv = BenchIv
  /\ data = <<>>
  /\ src = "copy"
  /\ entry_buf = <<>>
  /\ buf = <<>>
  /\ ctx = AES_init_ctx_iv(BenchKey, BenchIv)
  /\ initial_iv = BenchIv
  /\ wpc = [w \in Slots |-> "joined"]
  /\ block_idx = [w \in Slots |-> 0]
  /\ thread_iv = [w \in Slots |-> Junk]
  /\ buffer = [w \in Slots |-> Junk]
  /\ thread_local_ctx = [w \in Slots |-> Junk]
  /\ thread_ivs = [w \in Slots |-> Zeroes]
  /\ thread_buffers = [w \in Slots |-> Zeroes]
  /\ writes = <<>>
  /\ first = NoCall
  /\ calls = <<>>
  /\ chunks = <<>>
  /\ driver = <<>>

\* uint8_t* my_iv = thread_ivs[thread_id];
\* uint8_t* my_buffer = thread_buffers[thread_id];
\* memcpy(my_iv, ...); memcpy(my_buffer, ...);  in an iteration of thread w.
IndexScratch(w) ==
  /\ pc = "parallel"
  /\ UsesStaticScratch(fn)
  /\ StaticChunk(w, W, num_blocks).lo < StaticChunk(w, W, num_blocks).hi
  /\ acc' = { Access(w, "loop", "w", IvVar(fn), ScratchIdx(fn, w)),
              Access(w, "loop", "w", BufferVar(fn), ScratchIdx(fn, w)) }
  /\ UNCHANGED <<driver, chunks, calls, requested, W, key, iv, data, call, src, fn, entry_buf, ctx, buf, pc,
                 num_blocks, initial_iv, wpc, block_idx, thread_iv, buffer,
                 thread_local_ctx, thread_ivs, thread_buffers, writes, first>>

BoundsNext == \E w \in 0..(W - 1) : IndexScratch(w)

BoundsSpec == BoundsInit /\ [][BoundsNext]_vars

(***************************************************************************)
(* Two host threads call AES_CTR_xcrypt_buffer_openmp_false_sharing at the *)
(* same time, each on its own context and its own buffer. Each call makes  *)
(* its own team; the teams here are of one thread, which is thread 0 of    *)
(* its team and owns every block of its call. calls[c] holds the locals    *)
(* and the arguments of call c; thread_ivs and thread_buffers are the      *)
(* process's static arrays.                                                *)
(***************************************************************************)
MaxConcBlocks == 2

ConcIds == {1, 2}

ConcInput(c) ==
  IF c = 1 THEN [key |-> BenchKey, iv |-> BenchIv, seed |-> 11]
           ELSE [key |-> WrapKey, iv |-> WrapIv, seed |-> 200]

ConcCall(c, n) ==
  LET in == ConcInput(c)
      d == RandData(in.seed, n * AES_BLOCKLEN)
  IN  [key |-> in.key, iv |-> in.iv, ctx |-> AES_init_ctx_iv(in.key, in.iv),
       entry_buf |-> d, buf |-> d, pc |-> "idle", num_blocks |-> 0,
       initial_iv |-> Junk, block_idx |-> 0, thread_local_ctx |-> Junk]

ConcInit ==
  /\ \E n1, n2 \in 1..MaxConcBlocks :
       calls = [c \in ConcIds |-> IF c = 1 THEN ConcCall(1, n1) ELSE ConcCall(2, n2)]
  /\ thread_ivs = [w \in Slots |-> Zeroes]
  /\ thread_buffers = [w \in Slots |-> Zeroes]
  /\ fn = "false_sharing"
  /\ requested = 1
  /\ W = 1
  /\ key = BenchKey
  /\ iv = BenchIv
  /\ data = <<>>
  /\ call = 0
  /\ src = "copy"
  /\ entry_buf = <<>>
  /\ ctx = [RoundKey |-> Junk, Iv |-> Junk]
  /\ buf = <<>>
  /\ pc = "concurrent"
  /\ num_blocks = 0
  /\ initial_iv = Junk
  /\ wpc = [w \in Slots |-> "joined"]
  /\ block_idx = [w \in Slots |-> 0]
  /\ thread_iv = [w \in Slots |-> Junk]
  /\ buffer = [w \in Slots |-> Junk]
  /\ thread_local_ctx = [w \in Slots |-> Junk]
  /\ writes = <<>>
  /\ acc = {}
  /\ first = NoCall
  /\ chunks = <<>>
  /\ driver = <<>>

ConcFrame ==
  UNCHANGED <<driver, chunks, requested, W, key, iv, data, call, src, fn, entry_buf, ctx, buf, pc,
              num_blocks, initial_iv, wpc, block_idx, thread_iv, buffer,
              thread_local_ctx, writes, acc, first>>

\* num_blocks = length / AES_BLOCKLEN; memcpy(initial_iv, ctx->Iv); the region
\* starts, thread 0 copies the key schedule and gets the whole range.
ConcEnter(c) ==
  LET k == calls[c]
      n == Len(k.buf) \div AES_BLOCKLEN
      ch == StaticChunk(0, 1, n)
  IN  /\ k.pc = "idle"
      /\ calls' = [calls EXCEPT ![c] =
                     [k EXCEPT !.num_blocks = n,
                               !.initial_iv = k.ctx.Iv,
                               !.thread_local_ctx = k.ctx.RoundKey,
                               !.block_idx = ch.lo,
                               !.pc = IF ch.lo < ch.hi THEN "derive" ELSE "update_iv"]]
      /\ UNCHANGED <<thread_ivs, thread_buffers>>
      /\ ConcFrame

\* memcpy(my_iv, initial_iv); IncrementIvBy(my_iv, block_idx);
\* memcpy(my_buffer, my_iv); AES_ECB_encrypt(&thread_local_ctx, my_buffer);
ConcDerive(c) ==
  LET k == calls[c]
      civ == BlockCounter(thread_ivs[ThreadId(0)], k.initial_iv, k.block_idx)
      ks == AES_ECB_encrypt(k.thread_local_ctx, civ)
  IN  /\ k.pc = "derive"
      /\ thread_ivs' = [thread_ivs EXCEPT ![ThreadId(0)] = civ]
      /\ thread_buffers' = [thread_buffers EXCEPT ![ThreadId(0)] = ks]
      /\ calls' = [calls EXCEPT ![c] = [k EXCEPT !.pc = "xor"]]
      /\ ConcFrame

\* buf[buf_idx + i] ^= my_buffer[i];
ConcXor(c) ==
  LET k == calls[c]
  IN  /\ k.pc = "xor"
      /\ calls' = [calls EXCEPT ![c] =
                     [k EXCEPT !.buf = XorBlock(k.buf, BufIdx(k.block_idx),
                                                thread_buffers[ThreadId(0)]),
                               !.block_idx = k.block_idx + 1,
                               !.pc = IF k.block_idx + 1 < k.num_blocks
                                      THEN "derive" ELSE "update_iv"]]
      /\ UNCHANGED <<thread_ivs, thread_buffers>>
      /\ ConcFrame

\* After the region: the counter update and the remainder branch.
ConcReturn(c) ==
  LET k == calls[c]
      c1 == StoreIv(k.ctx, IncrementIvBy(k.initial_iv, k.num_blocks))
      ks == AES_ECB_encrypt(c1.RoundKey, c1.Iv)
      tail == HasTail(Len(k.buf))
  IN  /\ k.pc = "update_iv"
      /\ calls' = [calls EXCEPT ![c] =
                     [k EXCEPT !.ctx = IF tail THEN StoreIv(c1, IncrementIvBy(c1.Iv, 1))
                                              ELSE c1,
                               !.buf = IF tail
                                       THEN XorTail(k.buf, k.num_blocks * AES_BLOCKLEN, Len(k.buf), ks)
                                       ELSE k.buf,
                               !.pc = "returned"]]
      /\ UNCHANGED <<thread_ivs, thread_buffers>>
      /\ ConcFrame

ConcNext ==
  \E c \in ConcIds :
    \/ ConcEnter(c)
    \/ ConcDerive(c)
    \/ ConcXor(c)
    \/ ConcReturn(c)

ConcSpec == ConcInit /\ [][ConcNext]_vars

(***************************************************************************)
(* Continuation: a caller initialises one context and transforms a buffer  *)
(* piece by piece, each piece with one call on that context; the context   *)
(* is not initialised again between the calls. data is the whole buffer,   *)
(* buf the piece of the current call, chunks the pieces already returned.  *)
(***************************************************************************)
MaxCalls == 3
ContBlocks == 2

ContInit ==
  /\ Init
  /\ requested = 2
  /\ Len(data) = ContBlocks * AES_BLOCKLEN + TailBytes

RECURSIVE TotalLen(_)
TotalLen(cs) == IF cs = <<>> THEN 0 ELSE Len(Head(cs)) + TotalLen(Tail(cs))

\* The bytes of data the calls so far were given.
Consumed == IF call = 0 THEN 0 ELSE TotalLen(chunks) + Len(buf)

\* The lengths the caller cuts pieces of: whole blocks, whole blocks and a
\* partial block, or all that is left.
PieceLengths ==
  { L \in 0..(Len(data) - Consumed) :
      \/ L % AES_BLOCKLEN \in {0, TailBytes}
      \/ L = Len(data) - Consumed }

\* The next call on the context: f(&ctx, data + Consumed, L), up to the fork
\* of the parallel region. Only the first call follows AES_init_ctx_iv.
Continue(f, L) ==
  /\ \/ call = 0 /\ pc = "idle"
     \/ call \in 1..(MaxCalls - 1) /\ pc = "returned"
  /\ L \in PieceLengths
  /\ LET b == SubSeq(data, Consumed + 1, Consumed + L)
         c == IF call = 0 THEN AES_init_ctx_iv(key, iv) ELSE ctx
     IN  /\ buf' = b
         /\ entry_buf' = b
         /\ ctx' = c
         /\ num_blocks' = Len(b) \div AES_BLOCKLEN
         /\ initial_iv' = c.Iv
         /\ writes' = [j \in 1..Len(b) |-> <<>>]
  /\ chunks' = IF call = 0 THEN <<>> ELSE Append(chunks, buf)
  /\ call' = call + 1
  /\ src' = "copy"
  /\ fn' = f
  /\ pc' = "parallel"
  /\ wpc' = [w \in Slots |-> IF w < W THEN "start" ELSE "joined"]
  /\ block_idx' = [w \in Slots |-> 0]
  /\ thread_iv' = [w \in Slots |-> Junk]
  /\ buffer' = [w \in Slots |-> Junk]
  /\ thread_local_ctx' = [w \in Slots |-> Junk]
  /\ acc' = EnterAccesses
  /\ UNCHANGED <<driver, calls, requested, W, key, iv, data, thread_ivs, thread_buffers, first>>

ContNext ==
  \/ \E f \in Variants, L \in 0..Len(data) : Continue(f, L)
  \/ \E w \in Team : WorkerStart(w)
  \/ \E w \in Team : Derive(w)
  \/ \E w \in Team : Xor(w)
  \/ \E w \in Team : PassLoopBarrier(w)
  \/ Join
  \/ UpdateIv
  \/ Remainder

ContSpec == ContInit /\ [][ContNext]_vars

(***************************************************************************)
(* The buffer inside a larger allocation: the caller owns GuardBytes more  *)
(* bytes right after the length bytes it passes. buf is the memory the     *)
(* pointer buf reaches, entry_buf the length bytes passed, data the memory *)
(* as it was at the call.                                                  *)
(***************************************************************************)
GuardBytes == 3

GuardInit ==
  /\ requested \in 1..MaxWorkers
  /\ W = TeamSize(requested)
  /\ key = BenchKey
  /\ iv = BenchIv
  /\ \E len \in Lengths :
       /\ data = RandData(11, len + GuardBytes)
       /\ entry_buf = SubSeq(data, 1, len)
  /\ buf = data
  /\ call = 0
  /\ src = "copy"
  /\ fn = "none"
  /\ ctx = [RoundKey |-> Junk, Iv |-> Junk]
  /\ pc = "idle"
  /\ num_blocks = 0
  /\ initial_iv = Junk
  /\ wpc = [w \in Slots |-> "joined"]
  /\ block_idx = [w \in Slots |-> 0]
  /\ thread_iv = [w \in Slots |-> Junk]
  /\ buffer = [w \in Slots |-> Junk]
  /\ thread_local_ctx = [w \in Slots |-> Junk]
  /\ thread_ivs = [w \in Slots |-> Zeroes]
  /\ thread_buffers = [w \in Slots |-> Zeroes]
  /\ writes = [j \in 1..Len(data) |-> <<>>]
  /\ acc = {}
  /\ first = NoCall
  /\ calls = <<>>
  /\ chunks = <<>>
  /\ driver = <<>>

\* f(&ctx, buf, length) on a fresh context, up to the fork of the region.
GuardEnter(f) ==
  /\ call = 0
  /\ pc = "idle"
  /\ LET c == AES_init_ctx_iv(key, iv)
     IN  /\ ctx' = c
         /\ initial_iv' = c.Iv
  /\ num_blocks' = length \div AES_BLOCKLEN
  /\ call' = 1
  /\ fn' = f
  /\ pc' = "parallel"
  /\ wpc' = [w \in Slots |-> IF w < W THEN "start" ELSE "joined"]
  /\ acc' = EnterAccesses
  /\ UNCHANGED <<driver, chunks, calls, requested, W, key, iv, data, src, entry_buf, buf,
                 block_idx, thread_iv, buffer, thread_local_ctx, thread_ivs,
                 thread_buffers, writes, first>>

GuardNext ==
  \/ \E f \in Variants : GuardEnter(f)
  \/ \E w \in Team : WorkerStart(w)
  \/ \E w \in Team : Derive(w)
  \/ \E w \in Team : Xor(w)
  \/ \E w \in Team : PassLoopBarrier(w)
  \/ Join
  \/ UpdateIv
  \/ Remainder

GuardSpec == GuardInit /\ [][GuardNext]_vars

(***************************************************************************)
(* benchmark.c: main calls test_correctness, which runs the serial         *)
(* transform and the three parallel ones on copies of the same data and    *)
(* compares the outputs byte by byte; then main runs the benchmarks or     *)
(* gives up. The driver is modelled for any outputs the transforms may     *)
(* leave: the serial output of DriverBytes bytes, and for each parallel    *)
(* transform that output with any set of bytes changed.                    *)
(***************************************************************************)
DriverBytes == 2

SeqOutput ==
  AES_CTR_xcrypt_buffer(AES_init_ctx_iv(BenchKey, BenchIv), RandData(11, DriverBytes)).buf

Outputs ==
  { [j \in 1..DriverBytes |-> IF j \in S THEN (SeqOutput[j] + 1) % 256 ELSE SeqOutput[j]] :
      S \in SUBSET (1..DriverBytes) }

Compared == <<"data_par", "data_par_shared", "data_par_fs">>

BenchSizes == <<1, 10, 100>>

DriverInit ==
  /\ driver = [pc |-> "main", data_seq |-> <<>>, data_par |-> <<>>,
               data_par_shared |-> <<>>, data_par_fs |-> <<>>,
               loop |-> 0, i |-> 0, errors |-> <<0, 0, 0>>,
               ret |-> -1, ran |-> <<>>, status |-> -1]
  /\ requested = 1
  /\ W = 1
  /\ key = BenchKey
  /\ iv = BenchIv
  /\ data = RandData(11, DriverBytes)
  /\ call = 0
  /\ src = "copy"
  /\ fn = "none"
  /\ entry_buf = data
  /\ ctx = [RoundKey |-> Junk, Iv |-> Junk]
  /\ buf = data
  /\ pc = "idle"
  /\ num_blocks = 0
  /\ initial_iv = Junk
  /\ wpc = [w \in Slots |-> "joined"]
  /\ block_idx = [w \in Slots |-> 0]
  /\ thread_iv = [w \in Slots |-> Junk]
  /\ buffer = [w \in Slots |-> Junk]
  /\ thread_local_ctx = [w \in Slots |-> Junk]
  /\ thread_ivs = [w \in Slots |-> Zeroes]
  /\ thread_buffers = [w \in Slots |-> Zeroes]
  /\ writes = <<>>
  /\ acc = {}
  /\ first = NoCall
  /\ calls = <<>>
  /\ chunks = <<>>

DriverFrame ==
  UNCHANGED <<chunks, calls, requested, W, key, iv, data, call, src, fn, entry_buf, ctx,
              buf, pc, num_blocks, initial_iv, wpc, block_idx, thread_iv, buffer,
              thread_local_ctx, thread_ivs, thread_buffers, writes, acc, first>>

\* main reaches test_correctness, which fills the four buffers and runs the
\* four transforms; par, shared and fs are what the parallel ones left.
RunTransforms(par, shared, fs) ==
  /\ driver.pc = "main"
  /\ driver' = [driver EXCEPT !.pc = "compare",
                              !.data_seq = SeqOutput,
                              !.data_par = par,
                              !.data_par_shared = shared,
                              !.data_par_fs = fs,
                              !.loop = 1,
                              !.i = 0]
  /\ DriverFrame

\* The buffer the comparison loop number l reads.
ComparedBuffer(l) ==
  IF l = 1 THEN driver.data_par
  ELSE IF l = 2 THEN driver.data_par_shared
  ELSE driver.data_par_fs

\* One iteration: if (data_seq[i] != data_xxx[i]) errors_xxx++;
CompareByte ==
  /\ driver.pc = "compare"
  /\ driver.i < DriverBytes
  /\ driver' = [driver EXCEPT
                  !.errors[driver.loop] =
                     IF driver.data_seq[driver.i + 1] # ComparedBuffer(driver.loop)[driver.i + 1]
                     THEN @ + 1 ELSE @,
                  !.i = @ + 1]
  /\ DriverFrame

\* i == test_size: the loop ends; the next loop starts, or the verdict.
LoopDone ==
  /\ driver.pc = "compare"
  /\ driver.i = DriverBytes
  /\ driver' = [driver EXCEPT
                  !.loop = IF @ < Len(Compared) THEN @ + 1 ELSE @,
                  !.i = 0,
                  !.pc = IF driver.loop < Len(Compared) THEN "compare" ELSE "verdict"]
  /\ DriverFrame

\* Mutant: each passing check sets all_passed to 1, so the last one decides.
AllPassed_LastDecides(e) == e[3] = 0

\* all_passed starts at 1 and is set to 0 by every errors_xxx that is not 0.
AllPassed(e) == e[1] = 0 /\ e[2] = 0 /\ e[3] = 0

\* return all_passed ? 0 : 1;
Verdict ==
  /\ driver.pc = "verdict"
  /\ driver' = [driver EXCEPT !.ret = IF AllPassed(driver.errors) THEN 0 ELSE 1,
                              !.pc = "tested"]
  /\ DriverFrame

\* if (test_correctness() != 0) { ...; return 1; }
Abort ==
  /\ driver.pc = "tested"
  /\ driver.ret # 0
  /\ driver' = [driver EXCEPT !.status = 1, !.pc = "exited"]
  /\ DriverFrame

\* benchmark_size(1); benchmark_size(10); benchmark_size(100);
Benchmark ==
  /\ driver.pc = "tested"
  /\ driver.ret = 0
  /\ Len(driver.ran) < Len(BenchSizes)
  /\ driver' = [driver EXCEPT !.ran = Append(@, BenchSizes[Len(@) + 1])]
  /\ DriverFrame

\* return 0;
Finish ==
  /\ driver.pc = "tested"
  /\ driver.ret = 0
  /\ Len(driver.ran) = Len(BenchSizes)
  /\ driver' = [driver EXCEPT !.status = 0, !.pc = "exited"]
  /\ DriverFrame

DriverNext ==
  \/ \E par, shared, fs \in Outputs : RunTransforms(par, shared, fs)
  \/ CompareByte
  \/ LoopDone
  \/ Verdict
  \/ Abort
  \/ Benchmark
  \/ Finish

DriverSpec == DriverInit /\ [][DriverNext]_vars

\* The driver is one thread that runs on until main returns.
DriverFairSpec == DriverSpec /\ WF_vars(DriverNext)

(***************************************************************************)
(* Reference notions the properties are stated with.                       *)
(***************************************************************************)
\* The successor, modulo 2^128, of a 16-byte big-endian unsigned integer: the
\* last byte that is not 255 goes up by one and every byte after it becomes 0.
BigEndianSucc(x) ==
  LET nz == {i \in BlockIdx : x[i] # 255}
      k == IF nz = {} THEN 0 ELSE CHOOSE i \in nz : \A m \in nz : m <= i
  IN  [i \in BlockIdx |-> IF i > k THEN 0 ELSE IF i = k THEN x[i] + 1 ELSE x[i]]

\* x + n modulo 2^128, as n successors.
RECURSIVE BigEndianAdd(_, _)
BigEndianAdd(x, n) == IF n = 0 THEN x ELSE BigEndianAdd(BigEndianSucc(x), n - 1)

\* What the serial reference makes of the inputs of the current call.
SerialResult == AES_CTR_xcrypt_buffer(AES_init_ctx_iv(key, iv), entry_buf)

Returned == pc = "returned"
BenchmarkVariants == {"openmp", "shared_ctx", "false_sharing"}
WholeBytes == 1..(num_blocks * AES_BLOCKLEN)
LongestBuffer == AES_BLOCKLEN * MaxBlocks + TailBytes

(***************************************************************************)
(* C1: started from a fresh context, each of the openmp, shared_ctx and    *)
(* false_sharing transforms leaves the buffer byte for byte as the serial  *)
(* AES_CTR_xcrypt_buffer leaves it on the same inputs, for every team size *)
(* and length; so two strategies run on copies of the same data agree.     *)
(***************************************************************************)
C1_MatchesSerialReference ==
  (Returned /\ fn \in BenchmarkVariants) =>
    /\ buf = SerialResult.buf
    /\ (call = 2 /\ src = "copy" /\ first.fn \in BenchmarkVariants) => buf = first.buf

C1_Witness ==
  /\ Returned /\ call = 2 /\ src = "copy"
  /\ fn = "false_sharing" /\ first.fn = "openmp"
  /\ W = MaxWorkers /\ Len(buf) = LongestBuffer
  /\ buf # data

(***************************************************************************)
(* C2: whatever the interleaving of the threads' block steps, the team     *)
(* size and the join policy (barrier or nowait), the buffer and the        *)
(* context counter the caller finds at return are those of processing the  *)
(* buffer serially in block order.                                         *)
(***************************************************************************)
C2_ReturnStateIsSerial ==
  Returned => (buf = SerialResult.buf /\ ctx.Iv = SerialResult.ctx.Iv)

C2_Witness ==
  /\ Returned /\ fn = "nowait" /\ W = 2 /\ num_blocks = MaxBlocks
  /\ writes[1] = <<0>> /\ writes[num_blocks * AES_BLOCKLEN] = <<1>>
  /\ ctx.Iv # iv

(***************************************************************************)
(* C3: after a call over L bytes, in every variant, ctx->Iv read as a      *)
(* 128-bit big-endian integer is the initial counter plus ceil(L / 16),    *)
(* modulo 2^128.                                                           *)
(***************************************************************************)
C3_CounterAdvancesByCeil ==
  Returned =>
    ctx.Iv = BigEndianAdd(iv, (Len(entry_buf) + AES_BLOCKLEN - 1) \div AES_BLOCKLEN)

\* The counter wraps around 2^128 in a call with a partial block.
C3_Witness ==
  /\ Returned /\ iv = WrapIv /\ Len(entry_buf) = AES_BLOCKLEN + TailBytes
  /\ ctx.Iv = Zeroes

(***************************************************************************)
(* C4: after every call, for every length L, also one that is no multiple  *)
(* of the block size, the context counter is the initial counter plus the  *)
(* number of whole blocks consumed, L div 16.                              *)
(***************************************************************************)
C4_CounterIsWholeBlocks ==
  Returned => ctx.Iv = BigEndianAdd(iv, Len(entry_buf) \div AES_BLOCKLEN)

(***************************************************************************)
(* C4, amended: once the team has joined and the counter has been stored,  *)
(* it is the initial counter plus L div 16; at return it is still that     *)
(* when L is a multiple of 16, and its successor when L is not, the        *)
(* partial block having consumed one more counter value.                   *)
(***************************************************************************)
C4_CounterIsWholeBlocksPlusTail ==
  LET whole == BigEndianAdd(iv, Len(entry_buf) \div AES_BLOCKLEN)
  IN  /\ pc = "remainder" => ctx.Iv = whole
      /\ Returned =>
           ctx.Iv = IF Len(entry_buf) % AES_BLOCKLEN = 0 THEN whole
                    ELSE BigEndianSucc(whole)

C4_Witness ==
  /\ Returned /\ Len(entry_buf) = 2 * AES_BLOCKLEN + TailBytes
  /\ ctx.Iv = BigEndianAdd(iv, 3)
  /\ ctx.Iv # BigEndianAdd(iv, 2)

(***************************************************************************)
(* C5: for every number of blocks and team size the chunks of the static   *)
(* schedule are pairwise disjoint, consecutive without gap or overlap, and *)
(* cover exactly [0, num_blocks); every whole block is processed by        *)
(* exactly one thread exactly once per call.                               *)
(***************************************************************************)
C5_PartitionCoverage ==
  LET ch(w) == StaticChunk(w, W, num_blocks)
      owners(b) == {w \in Team : ch(w).lo <= b /\ b < ch(w).hi}
  IN  /\ \A w \in Team : 0 <= ch(w).lo /\ ch(w).lo <= ch(w).hi /\ ch(w).hi <= num_blocks
      /\ ch(0).lo = 0
      /\ ch(W - 1).hi = num_blocks
      /\ \A w \in Team : w + 1 < W => ch(w).hi = ch(w + 1).lo
      /\ \A b \in 0..(num_blocks - 1) : Cardinality(owners(b)) = 1
      /\ \A j \in WholeBytes : Len(writes[j]) <= 1
      /\ (call > 0 /\ pc # "parallel") =>
           \A j \in WholeBytes : Len(writes[j]) = 1 /\ writes[j][1] \in Team

\* Two threads share three blocks unevenly and each block was processed once.
C5_Witness ==
  /\ pc = "update_iv" /\ W = 2 /\ num_blocks = 3
  /\ StaticChunk(0, W, num_blocks) = [lo |-> 0, hi |-> 2]
  /\ StaticChunk(1, W, num_blocks) = [lo |-> 2, hi |-> 3]
  /\ writes[1] = <<0>> /\ writes[2 * AES_BLOCKLEN] = <<0>>
  /\ writes[2 * AES_BLOCKLEN + 1] = <<1>>

(***************************************************************************)
(* C6: in the parallel region a thread writes only bytes of buf inside the *)
(* block range assigned to it: no byte has been written, or is about to be *)
(* written, by two threads, and no thread writes outside                   *)
(* [lo * 16, hi * 16) of its chunk.                                        *)
(***************************************************************************)
InOwnRange(w, j) ==
  LET ch == StaticChunk(w, W, num_blocks)
  IN  ch.lo * AES_BLOCKLEN < j /\ j <= ch.hi * AES_BLOCKLEN

\* The bytes thread w writes in its next step.
Target(w) ==
  IF wpc[w] = "xor"
  THEN {j \in 1..length : j > BufIdx(block_idx[w]) /\ j <= BufIdx(block_idx[w]) + AES_BLOCKLEN}
  ELSE {}

C6_WritesOnlyOwnRange ==
  /\ \A j \in 1..length : \A k \in 1..Len(writes[j]) :
       writes[j][k] \in Team => InOwnRange(writes[j][k], j)
  /\ \A w \in Team :
       /\ wpc[w] = "xor" => Cardinality(Target(w)) = AES_BLOCKLEN
       /\ \A j \in Target(w) : InOwnRange(w, j) /\ writes[j] = <<>>
       /\ \A u \in Team : u # w => Target(u) \cap Target(w) = {}

\* Three threads are about to write a block each, at the same time.
C6_Witness ==
  /\ pc = "parallel" /\ W = 3 /\ num_blocks = 3
  /\ \A w \in Team : wpc[w] = "xor" /\ block_idx[w] = w

(***************************************************************************)
(* C7: with the barrier and with nowait alike, the call does not return,   *)
(* the context counter is not updated and the remainder is not processed   *)
(* before every thread has finished every block of its chunk; the caller   *)
(* never finds a whole block untransformed.                                *)
(***************************************************************************)
ChunkDone(w) ==
  \A j \in 1..length : InOwnRange(w, j) => writes[j] = <<w>>

AllWorkersFinished ==
  \A w \in Team : wpc[w] \in {"region_end", "joined"} /\ ChunkDone(w)

CallerWrote == \E j \in 1..length : \E k \in 1..Len(writes[j]) : writes[j][k] = Caller

C7_NoCompletionBeforeAllFinished ==
  [][ ( /\ pc \in {"parallel", "update_iv", "remainder"}
        /\ \/ ctx'.Iv # ctx.Iv
           \/ pc' = "returned"
           \/ CallerWrote' )
      => (AllWorkersFinished /\ \A j \in WholeBytes : writes'[j] # <<>>) ]_vars

\* A nowait call of two threads with uneven chunks is past the join: the
\* counter is updated and the second thread's block is transformed.
C7_Witness ==
  /\ pc = "remainder" /\ fn = "nowait" /\ W = 2 /\ num_blocks = 3
  /\ ctx.Iv # iv
  /\ writes[2 * AES_BLOCKLEN + 1] = <<1>>

(***************************************************************************)
(* C8: the nowait transform and the barrier transform are equivalent: run  *)
(* on copies of the same data with the same key, initial counter and team  *)
(* size, under any interleaving, they end with the same buffer bytes and   *)
(* the same context counter.                                               *)
(***************************************************************************)
C8_NowaitEqualsBarrier ==
  ( /\ Returned /\ call = 2 /\ src = "copy"
    /\ {first.fn, fn} = {"openmp", "nowait"} )
  => (buf = first.buf /\ ctx.Iv = first.Iv)

C8_Witness ==
  /\ Returned /\ call = 2 /\ src = "copy"
  /\ first.fn = "openmp" /\ fn = "nowait"
  /\ W = MaxWorkers /\ Len(buf) = LongestBuffer
  /\ buf # data /\ ctx.Iv # iv

(***************************************************************************)
(* C9: involution.  Transforming a buffer and transforming the result      *)
(* again, with the context re-initialised to the same key and initial      *)
(* counter, gives back the original buffer, for every length and strategy. *)
(***************************************************************************)
C9_Involution ==
  (Returned /\ call = 2 /\ src = "inplace") => buf = data

C9_Witness ==
  /\ Returned /\ call = 2 /\ src = "inplace"
  /\ fn = "shared_ctx" /\ first.fn = "shared_ctx"
  /\ Len(data) = LongestBuffer /\ W = 2
  /\ first.buf # data /\ buf = data

(***************************************************************************)
(* C10: determinism.  A call repeated with identical inputs (key, counter, *)
(* buffer, team size, strategy) gives identical outputs; the output of the *)
(* false_sharing transform depends neither on what an earlier call left in *)
(* thread_buffers and thread_ivs nor on the scheduling of the threads.     *)
(***************************************************************************)
C10_Deterministic ==
  (Returned /\ call = 2 /\ src = "copy" /\ fn = first.fn)
  => (buf = first.buf /\ ctx.Iv = first.Iv)

\* The second false_sharing call started with the first call's leftovers in
\* the static arrays.
C10_Witness ==
  /\ Returned /\ call = 2 /\ src = "copy"
  /\ fn = "false_sharing" /\ first.fn = "false_sharing"
  /\ W = 2 /\ num_blocks = 3
  /\ thread_ivs[0] = IncrementIvBy(iv, 1) /\ thread_ivs[1] = IncrementIvBy(iv, 2)
  /\ thread_buffers[1] # Zeroes
  /\ buf # data

(***************************************************************************)
(* C11: the static schedule gives exactly min(team size, num_blocks)       *)
(* threads a non-empty range of consecutive blocks, and the sizes of the   *)
(* non-empty ranges differ by at most one; a thread whose range is empty   *)
(* (there are some whenever the team is larger than num_blocks) never      *)
(* enters the loop body and writes no byte; with num_blocks = 0 no thread  *)
(* processes a block. (What a thread wrote is read off once the team is    *)
(* joined: the record of writes and accesses only grows during a call.)    *)
(***************************************************************************)
ChunkSize(w) ==
  LET ch == StaticChunk(w, W, num_blocks) IN ch.hi - ch.lo

NonEmptyChunks == {w \in Team : ChunkSize(w) > 0}

Min(a, b) == IF a < b THEN a ELSE b

InLoopBody(w) == wpc[w] \in {"derive", "xor"}

WroteNothing(w) ==
  /\ \A j \in 1..length : \A k \in 1..Len(writes[j]) : writes[j][k] # w
  /\ \A a \in acc : a.who = w => a.phase # "loop"

NoWorkerLoopAccess == \A a \in acc : a.phase # "loop"

C12_ShortLengths ==
  /\ (call > 0 /\ length = 0) =>
        /\ buf = entry_buf
        /\ ctx.Iv = iv
        /\ NoWorkerLoopAccess
  /\ (call > 0 /\ 0 < length /\ length < AES_BLOCKLEN) =>
        /\ num_blocks = 0
        /\ NoWorkerLoopAccess
        /\ ~Returned => buf = entry_buf
        /\ Returned =>
             /\ \A j \in 1..length :
                  /\ writes[j] = <<Caller>>
                  /\ buf[j] = BitXor(entry_buf[j],
                                     AES_ECB_encrypt(KeyExpansion(key), iv)[j])
             /\ ctx.Iv = BigEndianSucc(iv)

\* A team of three returns from a call on a buffer shorter than one block
\* whose bytes the remainder branch has changed.
C12_Witness ==
  /\ Returned
  /\ W = 3
  /\ length = TailBytes
  /\ buf # entry_buf
  /\ \A j \in 1..length : writes[j] = <<Caller>>

\* A team of three returns from a call on an empty buffer.
C12_EmptyWitness ==
  /\ Returned
  /\ W = 3
  /\ length = 0
  /\ ctx.Iv = iv

(***************************************************************************)
(* C13: a request for zero threads is served by a team of one. No call     *)
(* made after such a request has its counter moved off the initial value   *)
(* while a whole block of the buffer is still untransformed, and at return *)
(* every whole block b is the entry block XOR the keystream block of       *)
(* initial counter + b, written once.                                      *)
(***************************************************************************)
BlockOf(j) == (j - 1) \div AES_BLOCKLEN

Transformed(j) ==
  /\ Len(writes[j]) = 1
  /\ buf[j] = BitXor(entry_buf[j],
                     AES_ECB_encrypt(KeyExpansion(key), BigEndianAdd(iv, BlockOf(j)))
                       [j - BlockOf(j) * AES_BLOCKLEN])

InCall == pc \in {"parallel", "update_iv", "remainder"}

CallStep == CallerStep \/ \E w \in Team : WorkerStep(w)

RangeFinished(w) ==
  /\ wpc[w] = "region_end"
  /\ block_idx[w] = StaticChunk(w, W, num_blocks).hi

C14_CallRunsToCompletion ==
  /\ (pc = "parallel") ~> (pc = "parallel" /\ \A w \in Team : RangeFinished(w))
  /\ InCall ~> Returned
  /\ [](pc \in {"update_iv", "remainder", "returned"} =>
          \A w \in Slots : wpc[w] = "joined")
  /\ [](InCall => ENABLED CallStep)

\* A team of three, two of whose threads have an empty range, has passed
\* the loop barrier and stands at the end of the region, about to be joined.
C14_Witness ==
  /\ pc = "parallel"
  /\ fn = "openmp"
  /\ W = 3
  /\ num_blocks = 1
  /\ \A w \in Team : RangeFinished(w)

(***************************************************************************)
(* C15: IncrementIvBy(Iv, k) is Iv + k modulo 2^128, Iv read as a 16-byte  *)
(* big-endian unsigned integer: byte by byte from the last, each result    *)
(* byte is the sum of the counter's byte, k's byte of that weight and the  *)
(* carry of the byte to its right, modulo 256; the carry runs through all  *)
(* sixteen bytes and the carry out of byte 0 is dropped. Adding one gives  *)
(* the successor.                                                          *)
(***************************************************************************)
\* The byte of weight 256^p of k, for k below 2^31.
KByte(k, p) ==
  IF p = 0 THEN k % 256
  ELSE IF p = 1 THEN (k \div 256) % 256
  ELSE IF p = 2 THEN (k \div 65536) % 256
  ELSE IF p = 3 THEN k \div 16777216
  ELSE 0

\* The carry into the byte of weight 256^p in the column addition x + k.
RECURSIVE CarryInto(_, _, _)
CarryInto(x, k, p) ==
  IF p = 0 THEN 0
  ELSE (x[AES_BLOCKLEN - (p - 1)] + KByte(k, p - 1) + CarryInto(x, k, p - 1)) \div 256

\* x + k modulo 2^128 by column addition.
BigEndianPlus(x, k) ==
  [i \in BlockIdx |->
     (x[i] + KByte(k, AES_BLOCKLEN - i) + CarryInto(x, k, AES_BLOCKLEN - i)) % 256]

C15_IncrementIsAdditionMod2To128 ==
  pc = "increment" =>
    /\ ctx.Iv = BigEndianPlus(initial_iv, num_blocks)
    /\ IncrementIvBy(ctx.Iv, 1) = BigEndianSucc(ctx.Iv)
    /\ IncrementIvBy(ctx.Iv, 0) = ctx.Iv

\* 2^24 blocks have been added to the counter of sixteen 0xFF bytes that
\* earlier increments led to: the carry ran through every byte and out of
\* byte 0, leaving 2^24 - 1.
C15_Witness ==
  /\ pc = "increment"
  /\ call > 1
  /\ initial_iv = AllOnes
  /\ num_blocks = 16777216
  /\ ctx.Iv = [i \in BlockIdx |-> IF i > AES_BLOCKLEN - 3 THEN 255 ELSE 0]

(***************************************************************************)
(* C16: when a call has returned, for each whole block b the bytes         *)
(* 16b..16b+15 of the buffer are the bytes at entry XOR                    *)
(* encryptBlock(key schedule, initial counter + b mod 2^128): the value    *)
(* depends on the key, the initial counter and b only, not on the team     *)
(* size, on the thread that wrote it or on what the scratch held before    *)
(* (uninitialised locals, static arrays left over from an earlier call).   *)
(***************************************************************************)
KeystreamBlock(b) == AES_ECB_encrypt(KeyExpansion(key), BigEndianAdd(iv, b))

KeystreamByte(j) == KeystreamBlock(BlockOf(j))[j - BlockOf(j) * AES_BLOCKLEN]

C16_BlockIsEntryXorKeystream ==
  Returned =>
    \A b \in 0..(num_blocks - 1) :
      LET ks == KeystreamBlock(b)
      IN  \A i \in BlockIdx :
            LET j == b * AES_BLOCKLEN + i
            IN  buf[j] = BitXor(entry_buf[j], ks[i])

\* The second call of a behaviour, false_sharing on three blocks with a team
\* of three after a first false_sharing call has left its counters and
\* keystream in the static arrays, has returned; blocks 0 and 2 were written
\* by different threads.
C16_Witness ==
  /\ Returned
  /\ call = 2
  /\ fn = "false_sharing"
  /\ first.fn = "false_sharing"
  /\ W = 3
  /\ num_blocks = 3
  /\ writes[1] = <<0>>
  /\ writes[2 * AES_BLOCKLEN + 1] = <<2>>
  /\ buf[2 * AES_BLOCKLEN + 1] = BitXor(entry_buf[2 * AES_BLOCKLEN + 1],
                                        KeystreamByte(2 * AES_BLOCKLEN + 1))

(***************************************************************************)
(* C17: the bytes after the last whole block are written by the calling    *)
(* thread only, at most once, in the one step that returns, when every     *)
(* thread of the team has been joined; the calling thread writes no byte   *)
(* of a whole block. When length mod 16 is not 0 the call returns with     *)
(* each tail byte equal to its entry value XOR the byte of the same offset *)
(* of encryptBlock(key schedule, initial counter + num_blocks), and with   *)
(* the counter at initial counter + num_blocks + 1. When length mod 16 is  *)
(* 0 the calling thread writes nothing and the counter returns as initial  *)
(* counter + num_blocks.                                                   *)
(***************************************************************************)
TailStart == num_blocks * AES_BLOCKLEN

TailOfBuf == {j \in 1..length : j > TailStart}

TailKeystream == AES_ECB_encrypt(KeyExpansion(key), BigEndianAdd(iv, num_blocks))

C17_RemainderOnceAfterJoin ==
  call > 0 =>
    /\ \A j \in TailOfBuf : writes[j] \in {<<>>, <<Caller>>}
    /\ (\E a \in acc : a.who = Caller /\ a.var = "buf") =>
         Returned /\ \A w \in Team : wpc[w] = "joined"
    /\ ~Returned => \A j \in TailOfBuf : writes[j] = <<>> /\ buf[j] = entry_buf[j]
    /\ Returned =>
         \A j \in WholeBytes : \A k \in 1..Len(writes[j]) : writes[j][k] # Caller
    /\ (Returned /\ length % AES_BLOCKLEN # 0) =>
          /\ \A j \in TailOfBuf :
               /\ writes[j] = <<Caller>>
               /\ buf[j] = BitXor(entry_buf[j], TailKeystream[j - TailStart])
          /\ ctx.Iv = BigEndianSucc(BigEndianAdd(iv, num_blocks))
    /\ (Returned /\ length % AES_BLOCKLEN = 0) =>
          /\ ~CallerWrote
          /\ \A a \in acc : ~(a.who = Caller /\ a.var = "buf")
          /\ ctx.Iv = BigEndianAdd(iv, num_blocks)

\* A team of three has returned from a call on three blocks and a tail: the
\* last whole byte was written by thread 2, the last byte by the caller.
C17_Witness ==
  /\ Returned
  /\ W = 3
  /\ num_blocks = 3
  /\ length = 3 * AES_BLOCKLEN + TailBytes
  /\ writes[TailStart] = <<2>>
  /\ writes[length] = <<Caller>>
  /\ buf[length] = BitXor(entry_buf[length], TailKeystream[TailBytes])

(***************************************************************************)
(* C18, as claimed: in the openmp transform every access a thread makes    *)
(* inside the per-block loop is to its own thread_iv, buffer or            *)
(* thread_local_ctx or to a block of its own range of buf, and no other    *)
(* thread, nor the calling thread outside the region, accesses a location  *)
(* it accesses there.                                                      *)
(***************************************************************************)
PrivateCopy == {"openmp", "nowait"}

OwnLocation(a) ==
  \/ a.var \in {"thread_iv", "buffer", "thread_local_ctx"} /\ a.idx = a.who
  \/ /\ a.var = "buf"
     /\ StaticChunk(a.who, W, num_blocks).lo <= a.idx
     /\ a.idx < StaticChunk(a.who, W, num_blocks).hi

Unshared(a) == \A b \in acc : (b.var = a.var /\ b.idx = a.idx) => b.who = a.who

C18_LoopTouchesNoSharedMemory ==
  fn = "openmp" =>
    \A a \in acc : a.phase = "loop" => OwnLocation(a) /\ Unshared(a)

(***************************************************************************)
(* C18, amended: in the transforms that copy everything per thread (openmp *)
(* and nowait) a thread inside the per-block loop writes only its own      *)
(* thread_iv, its own buffer and blocks of its own range of buf, and no    *)
(* other thread nor the calling thread accesses these or its               *)
(* thread_local_ctx; the one shared location it touches is initial_iv,     *)
(* which it only reads and which only the calling thread writes, before    *)
(* the region. The accesses are those recorded when the team is joined and *)
(* when the call has returned: the record only grows during a call.        *)
(***************************************************************************)
ReadOfSnapshot(a) ==
  /\ a.var = "initial_iv"
  /\ a.kind = "r"
  /\ \A b \in acc : (b.var = "initial_iv" /\ b.kind = "w") =>
                       (b.who = Caller /\ b.phase = "entry")

C18_LoopSharesOnlyInitialIv ==
  (fn \in PrivateCopy /\ pc \in {"update_iv", "returned"}) =>
    \A a \in acc : a.phase = "loop" =>
      \/ ReadOfSnapshot(a)
      \/ OwnLocation(a) /\ Unshared(a)

\* A team of three has been joined after three blocks of openmp: threads 0
\* and 2 have both read initial_iv inside the loop, each has written its own
\* thread_iv, and the calling thread wrote initial_iv at entry.
C18_Witness ==
  /\ fn = "openmp"
  /\ pc = "update_iv"
  /\ W = 3
  /\ num_blocks = 3
  /\ Access(0, "loop", "r", "initial_iv", 0) \in acc
  /\ Access(2, "loop", "r", "initial_iv", 0) \in acc
  /\ Access(0, "loop", "w", "thread_iv", 0) \in acc
  /\ Access(2, "loop", "w", "thread_iv", 2) \in acc
  /\ Access(Caller, "entry", "w", "initial_iv", 0) \in acc

(***************************************************************************)
(* C19: in every transform and at every step of a call ctx->RoundKey holds *)
(* the key schedule the context was initialised with, so it returns as it  *)
(* entered, and every access to it is a read. In shared_ctx every thread   *)
(* that runs an iteration reads that one shared schedule inside the loop   *)
(* and no thread writes it.                                                *)
(***************************************************************************)
RanAnIteration(w) == \E a \in acc : a.who = w /\ a.phase = "loop"

C19_RoundKeyOnlyRead ==
  call > 0 =>
    /\ ctx.RoundKey = KeyExpansion(key)
    /\ \A a \in acc : a.var = "ctx.RoundKey" => a.kind = "r"
    /\ fn = "shared_ctx" =>
         \A w \in Team : RanAnIteration(w) =>
           Access(w, "loop", "r", "ctx.RoundKey", 0) \in acc
    /\ fn # "shared_ctx" =>
         \A a \in acc : a.var = "ctx.RoundKey" => a.phase # "loop"

\* shared_ctx has returned from three blocks and a tail with a team of
\* three: all three threads and the calling thread have read the schedule,
\* and it is the one the context was initialised with.
C19_Witness ==
  /\ Returned
  /\ fn = "shared_ctx"
  /\ W = 3
  /\ num_blocks = 3
  /\ length % AES_BLOCKLEN # 0
  /\ \A w \in Team : Access(w, "loop", "r", "ctx.RoundKey", 0) \in acc
  /\ Access(Caller, "finish", "r", "ctx.RoundKey", 0) \in acc
  /\ ctx.RoundKey = KeyExpansion(key)

(***************************************************************************)
(* C20: within one call of false_sharing a thread reads and writes the     *)
(* entries of thread_ivs and thread_buffers at its own thread number only, *)
(* and two threads never use the same entry (over all the accesses of the  *)
(* region, recorded when the team is joined): the entry of a thread that   *)
(* is about to XOR still holds the counter and the keystream that thread   *)
(* staged for its block, and the entries beyond the team are never         *)
(* touched.                                                                *)
(***************************************************************************)
StaticScratch == {"thread_ivs", "thread_buffers"}

C20_StaticScratchByOwnId ==
  (call > 0 /\ fn = "false_sharing") =>
    /\ \A a \in acc : a.var \in StaticScratch => a.idx = a.who
    /\ pc = "update_iv" =>
         \A a, b \in acc :
           (a.var \in StaticScratch /\ b.var = a.var /\ b.idx = a.idx) => b.who = a.who
    /\ \A w \in Team : wpc[w] = "xor" =>
         /\ thread_ivs[w] = BigEndianAdd(iv, block_idx[w])
         /\ thread_buffers[w] =
              AES_ECB_encrypt(KeyExpansion(key), BigEndianAdd(iv, block_idx[w]))
    /\ \A k \in Slots \ Team : thread_ivs[k] = Zeroes /\ thread_buffers[k] = Zeroes

\* Threads 0 and 2 of a team of three both stand before their XOR in
\* false_sharing, each with its own block staged in its own entry.
C20_Witness ==
  /\ fn = "false_sharing"
  /\ pc = "parallel"
  /\ W = 3
  /\ wpc[0] = "xor"
  /\ wpc[2] = "xor"
  /\ block_idx[0] # block_idx[2]
  /\ thread_ivs[0] # thread_ivs[2]
  /\ Access(0, "loop", "w", "thread_buffers", 0) \in acc
  /\ Access(2, "loop", "w", "thread_buffers", 2) \in acc

(***************************************************************************)
(* C21: in the transforms whose loop ends with the implicit barrier        *)
(* (openmp, shared_ctx, false_sharing) a thread stands past the end of the *)
(* work-sharing loop only when every thread of the team has run its loop   *)
(* to the end of its range. In nowait no thread ever waits at the end of   *)
(* the loop, so a thread may stand at the end of the region while others   *)
(* still process blocks; but in every transform the calling thread goes on *)
(* past the region only when every thread has finished its range.          *)
(***************************************************************************)
LoopFinished(u) ==
  /\ wpc[u] \in {"for_barrier", "region_end"}
  /\ block_idx[u] = StaticChunk(u, W, num_blocks).hi

C21_BarrierHoldsNowaitReleases ==
  /\ (pc = "parallel" /\ fn # "nowait") =>
        \A w \in Team : wpc[w] = "region_end" => \A u \in Team : LoopFinished(u)
  /\ (pc = "parallel" /\ fn = "nowait") =>
        \A w \in Team : wpc[w] # "for_barrier"
  /\ (call > 0 /\ pc # "parallel") =>
        \A u \in Team : block_idx[u] = StaticChunk(u, W, num_blocks).hi

\* In nowait thread 0 stands at the end of the region, its range done, while
\* thread 1 is still in the loop body and the calling thread has not gone on.
C21_Witness ==
  /\ fn = "nowait"
  /\ pc = "parallel"
  /\ W >= 2
  /\ wpc[0] = "region_end"
  /\ block_idx[0] = StaticChunk(0, W, num_blocks).hi
  /\ wpc[1] \in {"derive", "xor"}
  /\ ctx.Iv = iv

(***************************************************************************)
(* C22: in false_sharing, for every team the runtime may make, every index *)
(* a thread uses into thread_ivs and thread_buffers is at least 0 and      *)
(* below MAX_THREADS, so that no access falls outside either array.        *)
(***************************************************************************)
C22_ScratchIndexBelowMaxThreads ==
  \A a \in acc : a.var \in StaticScratch => (0 <= a.idx /\ a.idx < MAX_THREADS)

\* What does hold: in a team of at most MAX_THREADS threads every index is
\* inside the arrays.
C22_InBoundsForSmallTeams ==
  W <= MAX_THREADS =>
    \A a \in acc : a.var \in StaticScratch => (0 <= a.idx /\ a.idx < MAX_THREADS)

(***************************************************************************)
(* C23: of two calls of false_sharing that run at the same time on         *)
(* distinct contexts and distinct buffers, each returns with the buffer    *)
(* and the counter it returns with when it runs alone: every block b is    *)
(* the entry block XOR encryptBlock(its key schedule, its initial counter  *)
(* + b), and the counter is its initial counter + num_blocks.              *)
(***************************************************************************)
AloneBuf(k) ==
  [j \in 1..Len(k.entry_buf) |->
     BitXor(k.entry_buf[j],
            AES_ECB_encrypt(KeyExpansion(k.key), BigEndianAdd(k.iv, BlockOf(j)))
              [j - BlockOf(j) * AES_BLOCKLEN])]

C23_ConcurrentCallsAsAlone ==
  \A c \in DOMAIN calls :
    calls[c].pc = "returned" =>
      /\ calls[c].buf = AloneBuf(calls[c])
      /\ calls[c].ctx.Iv = BigEndianAdd(calls[c].iv, calls[c].num_blocks)

\* What does hold: the counter of each call, which never passes through the
\* static arrays, returns as when the call runs alone.
C23_CounterAsAlone ==
  \A c \in DOMAIN calls :
    calls[c].pc = "returned" =>
      calls[c].ctx.Iv = BigEndianAdd(calls[c].iv, calls[c].num_blocks)

(***************************************************************************)
(* C24: after any sequence of calls on one context, of lengths L1..Ln, the *)
(* counter is the initial counter + the sum of ceil(Li / 16), modulo       *)
(* 2^128; and when every length but possibly the last is a multiple of 16, *)
(* the pieces the calls returned, put end to end, are the bytes one call   *)
(* over the whole buffer returns: byte j is the entry byte XOR byte j % 16 *)
(* of encryptBlock(key schedule, initial counter + j / 16).                *)
(***************************************************************************)
CeilBlocks(L) == (L + AES_BLOCKLEN - 1) \div AES_BLOCKLEN

RECURSIVE SumCeil(_)
SumCeil(cs) == IF cs = <<>> THEN 0 ELSE CeilBlocks(Len(Head(cs))) + SumCeil(Tail(cs))

RECURSIVE Concat(_)
Concat(cs) == IF cs = <<>> THEN <<>> ELSE Head(cs) \o Concat(Tail(cs))

EarlierPiecesWhole == \A k \in DOMAIN chunks : Len(chunks[k]) % AES_BLOCKLEN = 0

OneCallByte(j) ==
  BitXor(data[j],
         AES_ECB_encrypt(KeyExpansion(key), BigEndianAdd(iv, BlockOf(j)))
           [j - BlockOf(j) * AES_BLOCKLEN])

C24_Continuation ==
  Returned =>
    /\ ctx.Iv = BigEndianAdd(iv, SumCeil(chunks) + CeilBlocks(Len(buf)))
    /\ EarlierPiecesWhole =>
         LET out == Concat(chunks) \o buf
         IN  \A j \in 1..Len(out) : out[j] = OneCallByte(j)

\* Three calls have returned: two pieces of whole blocks, then the rest with
\* its partial block; the whole buffer has been transformed.
C24_Witness ==
  /\ Returned
  /\ call = 3
  /\ \A k \in DOMAIN chunks : Len(chunks[k]) = AES_BLOCKLEN
  /\ HasTail(Len(buf))
  /\ Consumed = Len(data)

\* A piece with a partial block in the middle of the sequence: the counter
\* rule still holds, the bytes rule does not apply.
C24_MidTailWitness ==
  /\ Returned
  /\ call = 3
  /\ ~EarlierPiecesWhole
  /\ Len(buf) > 0

(***************************************************************************)
(* C25: while the parallel region is active no thread of the team writes   *)
(* ctx->Iv or initial_iv: ctx->Iv and initial_iv hold the counter the call *)
(* was entered with until all threads have joined, ctx->Iv is written only *)
(* by the calling thread after the join, initial_iv only by the calling    *)
(* thread at entry, and the counter a thread has derived for its block is  *)
(* that entry counter + block_idx.                                         *)
(***************************************************************************)
EntryIv == AES_init_ctx_iv(key, iv).Iv

CounterState == {"ctx.Iv", "initial_iv"}

C25_CounterStateFrozenInRegion ==
  /\ pc = "parallel" =>
       /\ ctx.Iv = EntryIv
       /\ initial_iv = EntryIv
       /\ \A w \in Team :
            wpc[w] = "xor" => MyIv(w) = BigEndianAdd(EntryIv, block_idx[w])
  /\ pc \in {"update_iv", "returned"} =>
       \A a \in acc :
         a.kind = "w" /\ a.var \in CounterState =>
           /\ a.who = Caller
           /\ a.var = "ctx.Iv" => a.phase = "finish"
           /\ a.var = "initial_iv" => a.phase = "entry"

\* Inside the region: one thread has finished its range, which was not
\* empty, and another holds the derived counter of a later block.
C25_Witness ==
  /\ pc = "parallel"
  /\ \E u, w \in Team :
       /\ RangeFinished(u)
       /\ ChunkSize(u) > 0
       /\ wpc[w] = "xor"
       /\ block_idx[w] > 0

\* After the join the calling thread has written ctx->Iv.
C25_CallerWroteWitness ==
  /\ Returned
  /\ num_blocks > 0
  /\ ctx.Iv # EntryIv
  /\ Access(Caller, "finish", "w", "ctx.Iv", 0) \in acc

(***************************************************************************)
(* C26: no variant writes a byte of buf at an index >= length: the bytes   *)
(* that follow the buffer are never written and are at return what they    *)
(* were at the call; and at return every byte at an index < length has     *)
(* been written exactly once in the call and is the entry byte XOR one     *)
(* keystream byte, byte index % 16 of encryptBlock(key schedule, initial   *)
(* counter + index / 16).                                                  *)
(***************************************************************************)
PastTheBuffer == (length + 1)..Len(buf)

C26_WritesStayBelowLength ==
  /\ \A j \in PastTheBuffer : writes[j] = <<>> /\ buf[j] = data[j]
  /\ \A j \in 1..length : Len(writes[j]) <= 1
  /\ Returned =>
       \A j \in 1..length : Len(writes[j]) = 1 /\ buf[j] = OneCallByte(j)

\* A team of at least two has returned from a call on whole blocks and a
\* partial block, with the caller's bytes after the partial block in place.
C26_Witness ==
  /\ Returned
  /\ W >= 2
  /\ num_blocks >= 2
  /\ HasTail(length)
  /\ Len(buf) = length + GuardBytes
  /\ writes[length] = <<Caller>>

(***************************************************************************)
(* C27: test_correctness returns 0 exactly when none of the three parallel *)
(* outputs differs from the sequential output in any byte; main runs       *)
(* benchmark_size only after test_correctness has returned 0; and when it  *)
(* returns non-zero main exits with status 1 without having run any        *)
(* benchmark.                                                              *)
(***************************************************************************)
TestReturned == driver.ret # -1

NoOutputDiffers ==
  /\ driver.data_par = driver.data_seq
  /\ driver.data_par_shared = driver.data_seq
  /\ driver.data_par_fs = driver.data_seq

AbortedExit == driver.pc = "exited" /\ driver.status = 1 /\ driver.ran = <<>>

C27_CorrectnessGatesBenchmarks ==
  /\ [](TestReturned => (driver.ret = 0 <=> NoOutputDiffers))
  /\ [](driver.ran # <<>> => driver.ret = 0)
  /\ []((TestReturned /\ driver.ret # 0 /\ driver.pc = "exited") => AbortedExit)
  /\ (TestReturned /\ driver.ret # 0) ~> AbortedExit

\* Only the false-sharing output differs, in its last byte: the test has
\* returned 1 and main has exited with status 1, no benchmark run.
C27_Witness ==
  /\ AbortedExit
  /\ driver.ret = 1
  /\ driver.errors = <<0, 0, 1>>
  /\ driver.data_par_fs[DriverBytes] # driver.data_seq[DriverBytes]

\* All outputs equal: the three benchmarks have run, in order, and main has
\* returned 0.
C27_PassWitness ==
  /\ driver.pc = "exited"
  /\ driver.status = 0
  /\ driver.ret = 0
  /\ NoOutputDiffers
  /\ driver.ran = BenchSizes

====
